---- MODULE Spec2Model ----
(***************************************************************************)
(* Conversation threading and follow-up classification of the mail         *)
(* service: the conversation identifier resolver and the two groupers of   *)
(* app/graph_service.py, and the role classifier of the                    *)
(* GET /conversations/{folder} route of app/api/routes.py.                 *)
(*                                                                         *)
(* Python values are records tagged by "kind", so that a value of any      *)
(* type can sit in any attribute, as in the source.  A str is a sequence   *)
(* of one-character strings; a datetime is a wall-clock reading in hours   *)
(* with an optional UTC offset.  A raised exception is a value of kind     *)
(* "TypeError" returned in place of the result.                            *)
(***************************************************************************)
EXTENDS Integers, Sequences, FiniteSets, TLC

VARIABLES
    hash_seed,          \* the per-process salt of the built-in str hash
    run,                \* number of the running interpreter process
    calls,              \* the _get_conversation_id calls made so far
    messages,           \* message_page.value, or inbox_messages
    sent_messages,      \* sent_messages of the sent-anchored grouper
    current_user,       \* what graph_service.get_user() returns
    request,            \* folder and limit of the pending GET /conversations
    conversations_dict, \* the dict the grouper returned
    response,           \* what the route handler returned
    pc,                 \* position of the request being served
    again,              \* what the route handler returned to a second request
    filter_input,       \* filter_request.conversations of the worklist requests
    clock,              \* the UTC wall clock, in hours
    filter_calls,       \* the worklist requests served so far
    graph_calls,        \* the GraphService methods the handler has called
    file_content,       \* file_content of upload_large_file_to_draft: the bytes of the file
    chunk_size,         \* chunk_size of upload_large_file_to_draft
    progress_callback,  \* progress_callback of upload_large_file_to_draft, or None
    bytes_uploaded,     \* bytes_uploaded of the chunk loop
    chunks,             \* the upload_chunk calls made so far
    progress_calls,     \* the progress_callback calls made so far
    upload_pc,          \* position of upload_large_file_to_draft
    progress,           \* UploadProgressService.progress
    draft_uploads,      \* UploadProgressService.draft_uploads
    uploads_created,    \* number of upload ids handed out so far
    wait_call,          \* draft_id, timeout and time waited of the wait_for_uploads call
    wait_pc,            \* position of the wait_for_uploads call
    wait_result         \* what wait_for_uploads returned

vars == <<hash_seed, run, calls, messages, sent_messages, current_user, request,
          conversations_dict, response, pc, again, filter_input, clock,
          filter_calls, graph_calls, file_content, chunk_size, progress_callback,
          bytes_uploaded, chunks, progress_calls, upload_pc, progress,
          draft_uploads, uploads_created, wait_call, wait_pc, wait_result>>

\* the variables of the chunked upload and of the upload progress service
uploadVars == <<file_content, chunk_size, progress_callback, bytes_uploaded, chunks,
                progress_calls, upload_pc>>
serviceVars == <<progress, draft_uploads, uploads_created, wait_call, wait_pc, wait_result>>

-----------------------------------------------------------------------------
(* Bounds of the model *)

MaxSeed == 1
HashMod == 7
MaxCalls == 2
MaxRuns == 2

HashSeeds == 0..MaxSeed

-----------------------------------------------------------------------------
(* Python values *)

None == [kind |-> "None"]
Str(c) == [kind |-> "str", chars |-> c]
TypeError == [kind |-> "TypeError"]

\* bool(v) of a value: None and the empty str are falsy
Truthy(v) ==
    CASE v.kind = "None" -> FALSE
      [] v.kind = "str" -> v.chars # <<>>
      [] OTHER -> TRUE

\* hasattr(obj, name): an object is a record, an attribute a field of it
hasattr(obj, name) == name \in DOMAIN obj

\* getattr(obj, name, default)
getattr(obj, name, default) == IF hasattr(obj, name) THEN obj[name] ELSE default

\* ord(c) for the characters the model's strings are made of
Ord(c) ==
    CASE c = " " -> 32 [] c = "-" -> 45 [] c = "@" -> 64 [] c = "_" -> 95
      [] c = "0" -> 48 [] c = "1" -> 49 [] c = "2" -> 50 [] c = "3" -> 51
      [] c = "4" -> 52 [] c = "5" -> 53 [] c = "6" -> 54 [] c = "7" -> 55
      [] c = "8" -> 56 [] c = "9" -> 57
      [] c = "E" -> 69 [] c = "H" -> 72 [] c = "M" -> 77 [] c = "N" -> 78
      [] c = "S" -> 83 [] c = "X" -> 88
      [] c = "a" -> 97 [] c = "b" -> 98 [] c = "c" -> 99 [] c = "e" -> 101
      [] c = "i" -> 105 [] c = "j" -> 106 [] c = "m" -> 109 [] c = "o" -> 111
      [] c = "s" -> 115 [] c = "t" -> 116 [] c = "u" -> 117 [] c = "x" -> 120
      [] c = "y" -> 121

\* str.lower() on one character: the upper-case letters move to lower case
LowerChar(c) ==
    CASE c = "E" -> "e" [] c = "H" -> "h" [] c = "M" -> "m" [] c = "N" -> "n"
      [] c = "S" -> "s" [] c = "X" -> "x"
      [] OTHER -> c

\* s.lower()
lower(s) == Str([i \in DOMAIN s.chars |-> LowerChar(s.chars[i])])

\* The built-in hash() of a str.  CPython salts it with a key drawn when the
\* interpreter starts (PYTHONHASHSEED unset), so it is a function of the
\* characters and of the process; a keyed polynomial hash stands for SipHash.
RECURSIVE HashFrom(_, _)
HashFrom(h, chars) ==
    IF chars = <<>> THEN h
    ELSE HashFrom((h * 31 + Ord(Head(chars))) % HashMod, Tail(chars))

\* hash(s) in the process salted with seed: a signed integer
hash(s, seed) ==
    LET h == HashFrom(seed, s.chars)
    IN IF 2 * h >= HashMod THEN h - HashMod ELSE h

\* the decimal digits of n >= 0
RECURSIVE Digits(_)
Digits(n) ==
    LET d == <<"0", "1", "2", "3", "4", "5", "6", "7", "8", "9">>[(n % 10) + 1]
    IN IF n < 10 THEN <<d>> ELSE Digits(n \div 10) \o <<d>>

\* format of an int inside an f-string
FormatInt(n) == IF n < 0 THEN <<"-">> \o Digits(0 - n) ELSE Digits(n)

-----------------------------------------------------------------------------
(* Graph objects *)

EmailAddress(a) == [kind |-> "EmailAddress", address |-> a]
Recipient(e) == [kind |-> "Recipient", email_address |-> e]

S_a == Str(<<"a">>)
S_b == Str(<<"b">>)
S_Hi == Str(<<"H", "i">>)
S_empty == Str(<<>>)
S_ax == Str(<<"a", "@", "x">>)
NoSubject == Str(<<"N", "o", " ", "S", "u", "b", "j", "e", "c", "t">>)
SubjectPrefix == <<"s", "u", "b", "j", "e", "c", "t", "_">>

-----------------------------------------------------------------------------
(* GraphService._get_conversation_id *)

\* the derived key of the last fallback; str + str raises TypeError when
\* either operand is not a str
DerivedKey(message, seed) ==
    LET subject == getattr(message, "subject", NoSubject)
        from_email ==
            IF hasattr(message, "from_") /\ Truthy(message.from_)
               /\ hasattr(message.from_, "email_address")
            THEN getattr(message.from_.email_address, "address", S_empty)
            ELSE S_empty
    IN IF subject.kind = "str" /\ from_email.kind = "str"
       THEN Str(SubjectPrefix
                \o FormatInt(hash(Str(subject.chars \o from_email.chars), seed)))
       ELSE TypeError

\* ProviderId with the two identifiers tried in the other order
ProviderId_MessageIdFirst(message) ==
    LET internet_message_id == getattr(message, "internet_message_id", None)
    IN IF ~Truthy(internet_message_id)
       THEN getattr(message, "conversation_id", None)
       ELSE internet_message_id

\* the conversation identifier, else the internet message identifier
ProviderId(message) ==
    LET conversation_id == getattr(message, "conversation_id", None)
    IN IF ~Truthy(conversation_id)
       THEN getattr(message, "internet_message_id", None)
       ELSE conversation_id

get_conversation_id(message, seed) ==
    LET conversation_id == ProviderId(message)
    IN IF ~Truthy(conversation_id)
       THEN DerivedKey(message, seed)
       ELSE conversation_id

-----------------------------------------------------------------------------
(* The resolver called on one message, in one process and the next *)

\* messages of every shape the fallbacks distinguish
ResolverSubjects == {None, S_empty, S_Hi}
ResolverFroms ==
    {None, Recipient(None), Recipient(EmailAddress(None)),
     Recipient(EmailAddress(S_empty)), Recipient(EmailAddress(S_ax))}
ResolverPool ==
    [conversation_id : {None, S_empty, S_a},
     internet_message_id : {None, S_empty, S_b},
     subject : ResolverSubjects,
     from_ : ResolverFroms]
    \cup
    \* a duck-typed message without the subject and from_ attributes
    [conversation_id : {None, S_a}, internet_message_id : {None}]

InitResolver ==
    /\ hash_seed \in HashSeeds
    /\ run = 1
    /\ calls = <<>>
    /\ \E m \in ResolverPool : messages = <<m>>
    /\ sent_messages = <<>>
    /\ current_user = None
    /\ request = None
    /\ conversations_dict = None
    /\ response = None
    /\ pc = "idle"
    /\ again = None
    /\ filter_input = <<>>
    /\ clock = 0
    /\ filter_calls = <<>>
    /\ graph_calls = <<>>
    /\ file_content = <<>>
    /\ chunk_size = 1
    /\ progress_callback = None
    /\ bytes_uploaded = 0
    /\ chunks = <<>>
    /\ progress_calls = <<>>
    /\ upload_pc = "none"
    /\ progress = <<>>
    /\ draft_uploads = <<>>
    /\ uploads_created = 0
    /\ wait_call = None
    /\ wait_pc = "none"
    /\ wait_result = None

\* one call of _get_conversation_id(message)
Resolve ==
    /\ Len(calls) < MaxCalls
    /\ calls' = Append(calls, [run |-> run, message |-> messages[1],
                               result |-> get_conversation_id(messages[1], hash_seed)])
    /\ UNCHANGED <<hash_seed, run, messages, sent_messages, current_user, request,
                   conversations_dict, response, pc>>
    /\ UNCHANGED <<again, filter_input, clock, filter_calls>>
    /\ UNCHANGED <<graph_calls, uploadVars, serviceVars>>

\* the service is restarted: the new interpreter draws a new hash salt
Restart ==
    /\ run < MaxRuns
    /\ run' = run + 1
    /\ hash_seed' \in HashSeeds
    /\ UNCHANGED <<calls, messages, sent_messages, current_user, request,
                   conversations_dict, response, pc>>
    /\ UNCHANGED <<again, filter_input, clock, filter_calls>>
    /\ UNCHANGED <<graph_calls, uploadVars, serviceVars>>

NextResolver == Resolve \/ Restart

SpecResolver == InitResolver /\ [][NextResolver]_vars

-----------------------------------------------------------------------------
(* datetime values and the sort of a thread *)

\* datetime.timezone(timedelta(hours=h))
TimeZone(h) == [kind |-> "timezone", offset |-> h]

\* a datetime: the wall-clock reading in hours, and tzinfo (None when naive)
DateTime(w, tz) == [kind |-> "datetime", wall |-> w, tzinfo |-> tz]

\* the instant of an aware datetime, in hours of UTC
UtcInstant(dt) == dt.wall - dt.tzinfo.offset

\* a < b between two str values: lexicographic, by code point
RECURSIVE CharsLt(_, _)
CharsLt(a, b) ==
    IF b = <<>> THEN FALSE
    ELSE IF a = <<>> THEN TRUE
    ELSE IF Ord(Head(a)) # Ord(Head(b)) THEN Ord(Head(a)) < Ord(Head(b))
    ELSE CharsLt(Tail(a), Tail(b))

\* a < b is defined: str with str, naive with naive, aware with aware; any
\* other pair of sort keys raises TypeError
Comparable(a, b) ==
    /\ a.kind = b.kind
    /\ a.kind = "datetime" => ((a.tzinfo = None) <=> (b.tzinfo = None))

\* a < b for comparable a and b
Lt(a, b) ==
    CASE a.kind = "str" -> CharsLt(a.chars, b.chars)
      [] a.kind = "datetime" ->
            IF a.tzinfo = None THEN a.wall < b.wall
            ELSE UtcInstant(a) < UtcInstant(b)

\* the sort key of both groupers and of the classifier:
\* received_date_time or sent_date_time or ''
SortKey(msg) ==
    LET received == getattr(msg, "received_date_time", None)
        sent == getattr(msg, "sent_date_time", None)
    IN IF Truthy(received) THEN received
       ELSE IF Truthy(sent) THEN sent
       ELSE S_empty

\* InsertSorted for reverse=True: x goes behind every element that is not less
InsertSorted_Descending(s, x) ==
    LET p == Cardinality({i \in DOMAIN s : ~Lt(s[i].key, x.key)})
    IN SubSeq(s, 1, p) \o <<x>> \o SubSeq(s, p + 1, Len(s))

\* InsertSorted of an unstable sort: x goes in front of the elements equal to it
InsertSorted_BeforeEqual(s, x) ==
    LET p == Cardinality({i \in DOMAIN s : Lt(s[i].key, x.key)})
    IN SubSeq(s, 1, p) \o <<x>> \o SubSeq(s, p + 1, Len(s))

\* x put into the sorted list s behind every element that is not greater
InsertSorted(s, x) ==
    LET p == Cardinality({i \in DOMAIN s : ~Lt(x.key, s[i].key)})
    IN SubSeq(s, 1, p) \o <<x>> \o SubSeq(s, p + 1, Len(s))

\* the stable ascending sort of a list of [key, item] pairs
RECURSIVE StableSort(_)
StableSort(s) ==
    IF s = <<>> THEN <<>>
    ELSE InsertSorted(StableSort(SubSeq(s, 1, Len(s) - 1)), s[Len(s)])

\* list.sort(key=..., reverse=False) / sorted(list, key=...): the keys are
\* computed first, the sort is stable, and it raises TypeError when two of
\* the keys cannot be compared
SortByKey(decorated) ==
    IF \E i, j \in DOMAIN decorated : ~Comparable(decorated[i].key, decorated[j].key)
    THEN TypeError
    ELSE LET sorted == StableSort(decorated)
         IN [kind |-> "list", items |-> [i \in DOMAIN sorted |-> sorted[i].item]]

-----------------------------------------------------------------------------
(* The groupers.  A message object is referred to by the list it came in    *)
(* and its position there; a dict is the sequence of its entries in         *)
(* insertion order.                                                         *)

Ref(list, idx) == [list |-> list, idx |-> idx]

\* the message object a reference stands for
Deref(ref, inbox, sent) == IF ref.list = "sent" THEN sent[ref.idx] ELSE inbox[ref.idx]

\* [key, item] pairs of a list of references
Decorate(refs, inbox, sent) ==
    [i \in DOMAIN refs |-> [key |-> SortKey(Deref(refs[i], inbox, sent)), item |-> refs[i]]]

\* DictAppend that assigns a fresh list to a key it already holds
DictAppend_Overwrite(conversations, conversation_id, ref) ==
    IF \E k \in DOMAIN conversations : conversations[k].key = conversation_id
    THEN [k \in DOMAIN conversations |->
            IF conversations[k].key = conversation_id
            THEN [conversations[k] EXCEPT !.messages = <<ref>>]
            ELSE conversations[k]]
    ELSE Append(conversations, [key |-> conversation_id, messages |-> <<ref>>])

\* DictAppend on a mapping that lists a new key in front of the keys it holds
DictAppend_NewKeyFirst(conversations, conversation_id, ref) ==
    IF \E k \in DOMAIN conversations : conversations[k].key = conversation_id
    THEN [k \in DOMAIN conversations |->
            IF conversations[k].key = conversation_id
            THEN [conversations[k] EXCEPT !.messages = Append(@, ref)]
            ELSE conversations[k]]
    ELSE <<[key |-> conversation_id, messages |-> <<ref>>]>> \o conversations

\* conversations[conversation_id].append(message), creating the entry first
\* when the key is new
DictAppend(conversations, conversation_id, ref) ==
    IF \E k \in DOMAIN conversations : conversations[k].key = conversation_id
    THEN [k \in DOMAIN conversations |->
            IF conversations[k].key = conversation_id
            THEN [conversations[k] EXCEPT !.messages = Append(@, ref)]
            ELSE conversations[k]]
    ELSE Append(conversations, [key |-> conversation_id, messages |-> <<ref>>])

\* the first loop of group_messages_by_conversation_single_folder, from
\* message i on: the entries of the dict, or the TypeError of the resolver
RECURSIVE BucketLoop(_, _, _, _)
BucketLoop(msgs, i, conversations, seed) ==
    IF i > Len(msgs) THEN [kind |-> "dict", items |-> conversations]
    ELSE LET conversation_id == get_conversation_id(msgs[i], seed)
         IN IF conversation_id.kind = "TypeError" THEN TypeError
            ELSE IF Truthy(conversation_id)
            THEN BucketLoop(msgs, i + 1,
                            DictAppend(conversations, conversation_id, Ref("messages", i)),
                            seed)
            ELSE BucketLoop(msgs, i + 1, conversations, seed)

\* the sort of every bucket; one failing sort fails the call
SortBuckets(conversations, inbox, sent) ==
    LET sorted == [k \in DOMAIN conversations |->
                     SortByKey(Decorate(conversations[k].messages, inbox, sent))]
    IN IF \E k \in DOMAIN sorted : sorted[k].kind = "TypeError" THEN TypeError
       ELSE [kind |-> "dict",
             items |-> [k \in DOMAIN conversations |->
                          [key |-> conversations[k].key, messages |-> sorted[k].items]]]

group_messages_by_conversation_single_folder(msgs, seed) ==
    LET conversations == BucketLoop(msgs, 1, <<>>, seed)
    IN IF conversations.kind = "TypeError" THEN TypeError
       ELSE SortBuckets(conversations.items, msgs, <<>>)

\* Matching that stops at the first message that resolves to conversation_id
RECURSIVE Matching_FirstOnly(_, _, _, _, _)
Matching_FirstOnly(list, msgs, i, conversation_id, seed) ==
    IF i > Len(msgs) THEN <<>>
    ELSE IF get_conversation_id(msgs[i], seed) = conversation_id
         THEN <<Ref(list, i)>>
         ELSE Matching_FirstOnly(list, msgs, i + 1, conversation_id, seed)

\* Matching that finds nothing in the sent folder
RECURSIVE Matching_InboxOnly(_, _, _, _, _)
Matching_InboxOnly(list, msgs, i, conversation_id, seed) ==
    IF i > Len(msgs) \/ list = "sent" THEN <<>>
    ELSE (IF get_conversation_id(msgs[i], seed) = conversation_id
          THEN <<Ref(list, i)>> ELSE <<>>)
         \o Matching_InboxOnly(list, msgs, i + 1, conversation_id, seed)

\* the references to the messages of a list that resolve to conversation_id
RECURSIVE Matching(_, _, _, _, _)
Matching(list, msgs, i, conversation_id, seed) ==
    IF i > Len(msgs) THEN <<>>
    ELSE (IF get_conversation_id(msgs[i], seed) = conversation_id
          THEN <<Ref(list, i)>> ELSE <<>>)
         \o Matching(list, msgs, i + 1, conversation_id, seed)

\* the sequences that hold every element of S once
Orders(S) ==
    {o \in [1..Cardinality(S) -> S] : \A x \in S : \E i \in DOMAIN o : o[i] = x}

\* group_messages_by_conversation; order is the order in which the set
\* sent_conversation_ids is iterated
group_messages_by_conversation(inbox_messages, sent, order, seed) ==
    IF \E i \in DOMAIN sent : get_conversation_id(sent[i], seed).kind = "TypeError"
    THEN TypeError
    ELSE IF \E i \in DOMAIN inbox_messages :
               get_conversation_id(inbox_messages[i], seed).kind = "TypeError"
            /\ sent # <<>>
    THEN TypeError
    ELSE SortBuckets(
            [k \in DOMAIN order |->
                [key |-> order[k],
                 messages |-> Matching("sent", sent, 1, order[k], seed)
                              \o Matching("messages", inbox_messages, 1, order[k], seed)]],
            inbox_messages, sent)

\* the set sent_conversation_ids
SentConversationIds(sent, seed) ==
    {get_conversation_id(sent[i], seed) : i \in DOMAIN sent}

-----------------------------------------------------------------------------
(* The groupers called on the messages of a mailbox *)

MaxMsgs == 3

\* the lists over S of at most n elements
ListsUpTo(S, n) == UNION {[1..k -> S] : k \in 0..n}

T1 == DateTime(1, TimeZone(0))
T2 == DateTime(2, TimeZone(0))
\* 03:00 at UTC+2 is 01:00 UTC
T3East == DateTime(3, TimeZone(2))

\* messages of two conversations (one by its conversation identifier, one
\* by its message identifier), with and without received and sent times; no
\* key of these messages is derived from the hash, so one salt stands for all
GroupPool ==
    [conversation_id : {S_a, None},
     internet_message_id : {S_b},
     subject : {S_Hi},
     from_ : {None},
     received_date_time : {None, T1, T2, T3East},
     sent_date_time : {None, T1}]

InitGroup ==
    /\ hash_seed = 0
    /\ run = 1
    /\ calls = <<>>
    /\ messages \in ListsUpTo(GroupPool, MaxMsgs)
    /\ sent_messages \in ListsUpTo(GroupPool, MaxMsgs - Len(messages))
    /\ current_user = None
    /\ request = None
    /\ conversations_dict = None
    /\ response = None
    /\ pc = "idle"
    /\ again = None
    /\ filter_input = <<>>
    /\ clock = 0
    /\ filter_calls = <<>>
    /\ graph_calls = <<>>
    /\ file_content = <<>>
    /\ chunk_size = 1
    /\ progress_callback = None
    /\ bytes_uploaded = 0
    /\ chunks = <<>>
    /\ progress_calls = <<>>
    /\ upload_pc = "none"
    /\ progress = <<>>
    /\ draft_uploads = <<>>
    /\ uploads_created = 0
    /\ wait_call = None
    /\ wait_pc = "none"
    /\ wait_result = None

\* group_messages_by_conversation_single_folder(messages) is called
GroupSingleFolder ==
    /\ pc = "idle"
    /\ sent_messages = <<>>
    /\ conversations_dict' = group_messages_by_conversation_single_folder(messages, hash_seed)
    /\ pc' = "single"
    /\ UNCHANGED <<hash_seed, run, calls, messages, sent_messages, current_user, request,
                   response>>
    /\ UNCHANGED <<again, filter_input, clock, filter_calls>>
    /\ UNCHANGED <<graph_calls, uploadVars, serviceVars>>

\* GraphService.get_conversations: group_messages_by_conversation(inbox, sent)
\* is called on the two fetched folders
GraphGetConversations ==
    /\ pc = "idle"
    /\ \E order \in Orders(SentConversationIds(sent_messages, hash_seed)) :
          conversations_dict' =
              group_messages_by_conversation(messages, sent_messages, order, hash_seed)
    /\ pc' = "anchored"
    /\ UNCHANGED <<hash_seed, run, calls, messages, sent_messages, current_user, request,
                   response>>
    /\ UNCHANGED <<again, filter_input, clock, filter_calls>>
    /\ UNCHANGED <<graph_calls, uploadVars, serviceVars>>

NextGroup == GroupSingleFolder \/ GraphGetConversations

SpecGroup == InitGroup /\ [][NextGroup]_vars

-----------------------------------------------------------------------------
(* The role classifier of GET /conversations/{folder} *)

NudgeDays == 3

\* _normalize_datetime: a naive datetime is taken to be UTC, an aware one is
\* converted to UTC
normalize_datetime(dt) ==
    IF dt = None THEN None
    ELSE IF dt.tzinfo = None THEN DateTime(dt.wall, TimeZone(0))
    ELSE DateTime(dt.wall - dt.tzinfo.offset, TimeZone(0))

\* CurrentUserEmail as current_user.user_principal_name or current_user.mail
CurrentUserEmail_PrincipalFirst(user) ==
    IF Truthy(user)
    THEN (IF Truthy(user.user_principal_name) THEN user.user_principal_name ELSE user.mail)
    ELSE None

\* current_user.mail or current_user.user_principal_name, None without a user
CurrentUserEmail(user) ==
    IF Truthy(user)
    THEN (IF Truthy(user.mail) THEN user.mail ELSE user.user_principal_name)
    ELSE None

\* the sender test made on the message and again on its predecessor
IsFromCurrentUser(message, current_user_email) ==
    /\ Truthy(current_user_email)
    /\ Truthy(message.from_)
    /\ Truthy(message.from_.email_address)
    /\ LET sender_email == message.from_.email_address.address
       IN /\ Truthy(sender_email)
          /\ lower(sender_email) = lower(current_user_email)

\* message.received_date_time or message.sent_date_time
ReceivedOrSent(message) ==
    IF Truthy(message.received_date_time) THEN message.received_date_time
    ELSE message.sent_date_time

\* AtLeastNudgeGap with time_diff > timedelta(days=3)
AtLeastNudgeGap_Strict(current, previous) ==
    UtcInstant(current) - UtcInstant(previous) > NudgeDays * 24

\* time_diff >= timedelta(days=3), on two normalized datetimes
AtLeastNudgeGap(current, previous) ==
    UtcInstant(current) - UtcInstant(previous) >= NudgeDays * 24

\* is_nudge without the test that the previous message is the user's
IsNudge_AnyPrevious(sorted_messages, i, current_user_email) ==
    /\ i > 1
    /\ LET current_time == ReceivedOrSent(sorted_messages[i])
           previous_time == ReceivedOrSent(sorted_messages[i - 1])
       IN /\ Truthy(current_time) /\ Truthy(previous_time)
          /\ AtLeastNudgeGap(normalize_datetime(current_time),
                             normalize_datetime(previous_time))

\* is_nudge for sorted_messages[i], a later message of the current user
IsNudge(sorted_messages, i, current_user_email) ==
    /\ i > 1
    /\ IsFromCurrentUser(sorted_messages[i - 1], current_user_email)
    /\ LET current_time == ReceivedOrSent(sorted_messages[i])
           previous_time == ReceivedOrSent(sorted_messages[i - 1])
       IN /\ Truthy(current_time) /\ Truthy(previous_time)
          /\ Truthy(normalize_datetime(current_time))
          /\ Truthy(normalize_datetime(previous_time))
          /\ AtLeastNudgeGap(normalize_datetime(current_time),
                             normalize_datetime(previous_time))

\* MessageType with the final else bound to the inner if: a message of
\* someone else keeps the default "unknown"
MessageType_NoElse(sorted_messages, i, first_user_message_found, current_user_email) ==
    IF IsFromCurrentUser(sorted_messages[i], current_user_email)
    THEN IF ~first_user_message_found THEN "initial"
         ELSE IF IsNudge(sorted_messages, i, current_user_email) THEN "nudge"
         ELSE "follow_up"
    ELSE "unknown"

\* MessageType that never looks at first_user_message_found: a message of
\* the user that is no nudge is initial
MessageType_FlagIgnored(sorted_messages, i, first_user_message_found, current_user_email) ==
    IF IsFromCurrentUser(sorted_messages[i], current_user_email)
    THEN IF IsNudge(sorted_messages, i, current_user_email) THEN "nudge" ELSE "initial"
    ELSE "reply"

\* message_type of sorted_messages[i], given first_user_message_found
MessageType(sorted_messages, i, first_user_message_found, current_user_email) ==
    IF IsFromCurrentUser(sorted_messages[i], current_user_email)
    THEN IF ~first_user_message_found THEN "initial"
         ELSE IF IsNudge(sorted_messages, i, current_user_email) THEN "nudge"
         ELSE "follow_up"
    ELSE "reply"

\* the loop over sorted_messages from position i on: the EmailMessage list
RECURSIVE ClassifyLoop(_, _, _, _, _, _)
ClassifyLoop(refs, sorted_messages, i, first_user_message_found, conversation_id, current_user_email) ==
    IF i > Len(sorted_messages) THEN <<>>
    ELSE LET message == sorted_messages[i]
             is_from_current_user == IsFromCurrentUser(message, current_user_email)
         IN <<[src |-> refs[i],
               conversation_id |-> conversation_id,
               received_date_time |-> getattr(message, "received_date_time", None),
               sent_date_time |-> getattr(message, "sent_date_time", None),
               message_type |-> MessageType(sorted_messages, i, first_user_message_found,
                                            current_user_email),
               is_from_current_user |-> is_from_current_user]>>
            \o ClassifyLoop(refs, sorted_messages, i + 1,
                            first_user_message_found \/ is_from_current_user,
                            conversation_id, current_user_email)

\* ClassifyConversation with first_user_message_found set once, in front of
\* the loop over the conversations, and so carried from thread to thread
ClassifyConversation_FlagCarried(conversations, k, msgs, current_user_email) ==
    LET sorted == SortByKey(Decorate(conversations[k].messages, msgs, <<>>))
        sorted_messages == [i \in DOMAIN sorted.items |-> Deref(sorted.items[i], msgs, <<>>)]
        carried ==
            \E j \in 1..(k - 1) : \E i \in DOMAIN conversations[j].messages :
                IsFromCurrentUser(Deref(conversations[j].messages[i], msgs, <<>>),
                                  current_user_email)
        conversation_messages ==
            ClassifyLoop(sorted.items, sorted_messages, 1, carried,
                         conversations[k].key, current_user_email)
    IN [conversation_id |-> conversations[k].key,
        messages |-> conversation_messages,
        total_messages |-> Len(conversation_messages),
        last_message_status |->
            IF conversation_messages = <<>> THEN "unknown"
            ELSE conversation_messages[Len(conversation_messages)].message_type]

\* ClassifyConversation with last_message_status assigned once, at the first
\* message of the loop, instead of at every message
ClassifyConversation_StatusOfFirst(conversations, k, msgs, current_user_email) ==
    LET sorted == SortByKey(Decorate(conversations[k].messages, msgs, <<>>))
        sorted_messages == [i \in DOMAIN sorted.items |-> Deref(sorted.items[i], msgs, <<>>)]
        conversation_messages ==
            ClassifyLoop(sorted.items, sorted_messages, 1, FALSE,
                         conversations[k].key, current_user_email)
    IN [conversation_id |-> conversations[k].key,
        messages |-> conversation_messages,
        total_messages |-> Len(conversation_messages),
        last_message_status |->
            IF conversation_messages = <<>> THEN "unknown"
            ELSE conversation_messages[1].message_type]

\* the Conversation built from entry k of conversations_dict
ClassifyConversation(conversations, k, msgs, current_user_email) ==
    LET sorted == SortByKey(Decorate(conversations[k].messages, msgs, <<>>))
        sorted_messages == [i \in DOMAIN sorted.items |-> Deref(sorted.items[i], msgs, <<>>)]
        conversation_messages ==
            ClassifyLoop(sorted.items, sorted_messages, 1, FALSE,
                         conversations[k].key, current_user_email)
    IN [conversation_id |-> conversations[k].key,
        messages |-> conversation_messages,
        total_messages |-> Len(conversation_messages),
        last_message_status |->
            IF conversation_messages = <<>> THEN "unknown"
            ELSE conversation_messages[Len(conversation_messages)].message_type]

HTTP_500_INTERNAL_SERVER_ERROR == 500

InternalServerError == [status |-> HTTP_500_INTERNAL_SERVER_ERROR]

ConversationsResponse(conversations, total_messages) ==
    [status |-> 200,
     conversations |-> conversations,
     total_conversations |-> Len(conversations),
     total_messages |-> total_messages]

S_inbox == Str(<<"i", "n", "b", "o", "x">>)
S_sent == Str(<<"s", "e", "n", "t">>)
S_sentitems == Str(<<"s", "e", "n", "t", "i", "t", "e", "m", "s">>)

\* the two validations at the head of the handler pass
ValidRequest(folder, limit) ==
    /\ lower(folder) \in {S_inbox, S_sent, S_sentitems}
    /\ ~(limit < 1 \/ limit > 100)

\* the GraphService methods the handler calls: none when a validation fails
ServiceCalls(folder, limit) ==
    IF ValidRequest(folder, limit) THEN <<"get_user", "get_messages_from_folder">> ELSE <<>>

\* the handler get_conversations(folder, limit) on the page the mail service
\* returns.  Every exception raised inside its try block, the HTTPException
\* of the validations included, reaches "except Exception" and is answered
\* with status 500.
get_conversations(folder, limit, user, page, seed) ==
    IF ~ValidRequest(folder, limit) THEN InternalServerError
    ELSE IF page = <<>> THEN ConversationsResponse(<<>>, 0)
    ELSE LET grouped == group_messages_by_conversation_single_folder(page, seed)
         IN IF grouped.kind = "TypeError" THEN InternalServerError
            ELSE IF grouped.items = <<>> THEN ConversationsResponse(<<>>, 0)
            ELSE LET conversations ==
                         [k \in DOMAIN grouped.items |->
                             ClassifyConversation(grouped.items, k, page,
                                                  CurrentUserEmail(user))]
                 IN ConversationsResponse(
                        conversations,
                        conversations[Len(conversations)].total_messages)

-----------------------------------------------------------------------------
(* GET /conversations/{folder} served on a mailbox *)

User(mail, upn) == [kind |-> "User", mail |-> mail, user_principal_name |-> upn]

Request(folder, limit) == [kind |-> "Request", folder |-> folder, limit |-> limit]

S_me == Str(<<"m", "@", "x">>)
S_ME == Str(<<"M", "@", "X">>)
S_upn == Str(<<"u", "@", "x">>)
S_other == Str(<<"o", "@", "y">>)

From(address) == Recipient(EmailAddress(address))

\* the handler runs to its response
GetConversationsRoute ==
    /\ pc = "idle"
    /\ response' = get_conversations(request.folder, request.limit, current_user,
                                     messages, hash_seed)
    /\ conversations_dict' =
          IF ValidRequest(request.folder, request.limit) /\ messages # <<>>
          THEN group_messages_by_conversation_single_folder(messages, hash_seed)
          ELSE None
    /\ graph_calls' = graph_calls \o ServiceCalls(request.folder, request.limit)
    /\ pc' = "responded"
    /\ UNCHANGED <<hash_seed, run, calls, messages, sent_messages, current_user, request>>
    /\ UNCHANGED <<again, filter_input, clock, filter_calls>>
    /\ UNCHANGED <<uploadVars, serviceVars>>

NextRoute == GetConversationsRoute

\* two conversations; senders: the user, someone else, nobody; received
\* times absent, equal and different
RoutePool ==
    [conversation_id : {S_a, None},
     internet_message_id : {S_b},
     subject : {S_Hi},
     from_ : {From(S_me), From(S_other), None},
     received_date_time : {None, T1, T2},
     sent_date_time : {None}]

Init ==
    /\ hash_seed = 0
    /\ run = 1
    /\ calls = <<>>
    /\ messages \in ListsUpTo(RoutePool, MaxMsgs)
    /\ sent_messages = <<>>
    /\ current_user \in {None, User(S_me, None)}
    /\ request = Request(S_inbox, 50)
    /\ conversations_dict = None
    /\ response = None
    /\ pc = "idle"
    /\ again = None
    /\ filter_input = <<>>
    /\ clock = 0
    /\ filter_calls = <<>>
    /\ graph_calls = <<>>
    /\ file_content = <<>>
    /\ chunk_size = 1
    /\ progress_callback = None
    /\ bytes_uploaded = 0
    /\ chunks = <<>>
    /\ progress_calls = <<>>
    /\ upload_pc = "none"
    /\ progress = <<>>
    /\ draft_uploads = <<>>
    /\ uploads_created = 0
    /\ wait_call = None
    /\ wait_pc = "none"
    /\ wait_result = None

Spec == Init /\ [][NextRoute]_vars

H0 == DateTime(0, TimeZone(0))
H1 == DateTime(1, TimeZone(0))
\* 02:00 of day 4 at UTC+2: 72 hours after H0
H72East == DateTime(74, TimeZone(2))
H73 == DateTime(73, TimeZone(0))
H121 == DateTime(121, TimeZone(0))
\* naive datetimes
N0 == DateTime(0, None)
N72 == DateTime(72, None)

\* <<received_date_time, sent_date_time>> of the messages below
NudgeTimes ==
    {<<None, None>>, <<None, H1>>, <<H0, None>>, <<H0, H1>>, <<H1, None>>,
     <<H72East, None>>, <<H73, None>>, <<H121, None>>, <<N0, None>>, <<N72, None>>}

\* one conversation between the user and someone else, with gaps below, at
\* and above three days
NudgePool ==
    {[conversation_id |-> S_a,
      internet_message_id |-> S_b,
      subject |-> S_Hi,
      from_ |-> f,
      received_date_time |-> t[1],
      sent_date_time |-> t[2]] : f \in {From(S_me), From(S_other)}, t \in NudgeTimes}

InitNudge ==
    /\ hash_seed = 0
    /\ run = 1
    /\ calls = <<>>
    /\ messages \in ListsUpTo(NudgePool, MaxMsgs)
    /\ sent_messages = <<>>
    /\ current_user = User(S_me, None)
    /\ request = Request(S_inbox, 50)
    /\ conversations_dict = None
    /\ response = None
    /\ pc = "idle"
    /\ again = None
    /\ filter_input = <<>>
    /\ clock = 0
    /\ filter_calls = <<>>
    /\ graph_calls = <<>>
    /\ file_content = <<>>
    /\ chunk_size = 1
    /\ progress_callback = None
    /\ bytes_uploaded = 0
    /\ chunks = <<>>
    /\ progress_calls = <<>>
    /\ upload_pc = "none"
    /\ progress = <<>>
    /\ draft_uploads = <<>>
    /\ uploads_created = 0
    /\ wait_call = None
    /\ wait_pc = "none"
    /\ wait_result = None

SpecNudge == InitNudge /\ [][NextRoute]_vars

\* senders and users of every shape the sender test distinguishes
IdentityFroms ==
    {None, Recipient(None), From(None), From(S_empty),
     From(S_me), From(S_ME), From(S_upn), From(S_other)}
IdentityUsers ==
    {None, User(None, None), User(S_me, None), User(None, S_upn), User(S_me, S_upn),
     User(S_ME, S_upn), User(S_empty, S_upn), User(S_empty, S_empty)}
IdentityPool ==
    [conversation_id : {S_a},
     internet_message_id : {S_b},
     subject : {S_Hi},
     from_ : IdentityFroms,
     received_date_time : {T1},
     sent_date_time : {None}]

InitIdentity ==
    /\ hash_seed = 0
    /\ run = 1
    /\ calls = <<>>
    /\ messages \in ListsUpTo(IdentityPool, MaxMsgs)
    /\ sent_messages = <<>>
    /\ current_user \in IdentityUsers
    /\ request = Request(S_inbox, 50)
    /\ conversations_dict = None
    /\ response = None
    /\ pc = "idle"
    /\ again = None
    /\ filter_input = <<>>
    /\ clock = 0
    /\ filter_calls = <<>>
    /\ graph_calls = <<>>
    /\ file_content = <<>>
    /\ chunk_size = 1
    /\ progress_callback = None
    /\ bytes_uploaded = 0
    /\ chunks = <<>>
    /\ progress_calls = <<>>
    /\ upload_pc = "none"
    /\ progress = <<>>
    /\ draft_uploads = <<>>
    /\ uploads_created = 0
    /\ wait_call = None
    /\ wait_pc = "none"
    /\ wait_result = None

SpecIdentity == InitIdentity /\ [][NextRoute]_vars

-----------------------------------------------------------------------------
(* GET /conversations/{folder} requested a second time on the same mailbox *)

\* the positions in messages of the messages of conversations k.. of a
\* response, in the order the response lists them
RECURSIVE ClassifiedOrder(_, _)
ClassifiedOrder(conversations, k) ==
    IF k > Len(conversations) THEN <<>>
    ELSE [i \in DOMAIN conversations[k].messages |-> conversations[k].messages[i].src.idx]
            \o ClassifiedOrder(conversations, k + 1)

\* a response to the page <<messages[order[1]], messages[order[2]], ...>>,
\* with every message named by its position in messages
NamedByPosition(resp, order) ==
    IF resp.status # 200 THEN resp
    ELSE [resp EXCEPT !.conversations =
             [k \in DOMAIN resp.conversations |->
                 [resp.conversations[k] EXCEPT !.messages =
                     [i \in DOMAIN resp.conversations[k].messages |->
                         [resp.conversations[k].messages[i] EXCEPT
                             !.src = Ref("messages", order[resp.conversations[k].messages[i].src.idx])]]]]]

\* the handler runs a second time, for the same user, on the same messages:
\* the page lists them as before, or in the order of the first response
ClassifyAgain ==
    /\ pc = "responded"
    /\ \E order \in {[i \in DOMAIN messages |-> i]}
                    \cup (IF response.status = 200
                          THEN {ClassifiedOrder(response.conversations, 1)} ELSE {}) :
          again' = [order |-> order,
                    response |->
                        NamedByPosition(
                            get_conversations(request.folder, request.limit, current_user,
                                              [i \in DOMAIN order |-> messages[order[i]]],
                                              hash_seed),
                            order)]
    /\ graph_calls' = graph_calls \o ServiceCalls(request.folder, request.limit)
    /\ pc' = "responded again"
    /\ UNCHANGED <<hash_seed, run, calls, messages, sent_messages, current_user, request,
                   conversations_dict, response, filter_input, clock, filter_calls>>
    /\ UNCHANGED <<uploadVars, serviceVars>>

NextAgain == GetConversationsRoute \/ ClassifyAgain

SpecAgain == Init /\ [][NextAgain]_vars

-----------------------------------------------------------------------------
(* GET /emails/inbox, and requests that fail the validations *)

\* _convert_graph_recipient
convert_graph_recipient(graph_recipient) ==
    IF ~Truthy(graph_recipient) \/ ~Truthy(getattr(graph_recipient, "email_address", None))
    THEN None
    ELSE Recipient(EmailAddress(getattr(graph_recipient.email_address, "address", None)))

\* the EmailMessage built from a message of the page
InboxEmailMessage(message) ==
    [kind |-> "EmailMessage",
     subject |-> getattr(message, "subject", None),
     from_ |-> convert_graph_recipient(getattr(message, "from_", None)),
     conversation_id |-> getattr(message, "conversation_id", None),
     received_date_time |-> getattr(message, "received_date_time", None),
     sent_date_time |-> getattr(message, "sent_date_time", None)]

InboxResponse(email_messages, has_more) ==
    [status |-> 200,
     messages |-> email_messages,
     total_count |-> Len(email_messages),
     has_more |-> has_more]

\* the handler get_inbox(limit) on the page the mail service returns; the
\* HTTPException of the validation is raised inside the try block and reaches
\* "except Exception", as in get_conversations
get_inbox(limit, page, odata_next_link) ==
    IF limit < 1 \/ limit > 100 THEN InternalServerError
    ELSE IF page = <<>> THEN InboxResponse(<<>>, FALSE)
    ELSE InboxResponse([i \in DOMAIN page |-> InboxEmailMessage(page[i])],
                       odata_next_link # None)

\* the handler of GET /emails/inbox runs to its response
GetInboxRoute ==
    /\ pc = "idle"
    /\ \E odata_next_link \in {None, S_a} :
          response' = get_inbox(request.limit, messages, odata_next_link)
    /\ graph_calls' = graph_calls
                         \o (IF request.limit < 1 \/ request.limit > 100
                             THEN <<>> ELSE <<"get_inbox">>)
    /\ pc' = "responded inbox"
    /\ UNCHANGED <<hash_seed, run, calls, messages, sent_messages, current_user, request,
                   conversations_dict, again, filter_input, clock, filter_calls>>
    /\ UNCHANGED <<uploadVars, serviceVars>>

S_Sent == Str(<<"S", "e", "n", "t">>)
S_drafts == Str(<<"d", "r", "a", "f", "t", "s">>)

\* folders and limits on both sides of each validation
ValidationRequests ==
    {Request(folder, limit) : folder \in {S_inbox, S_Sent, S_drafts},
                              limit \in {0, 1, 100, 101}}

ValidationPool ==
    [conversation_id : {S_a},
     internet_message_id : {S_b},
     subject : {S_Hi},
     from_ : {From(S_me), None},
     received_date_time : {T1},
     sent_date_time : {None}]

InitValidation ==
    /\ hash_seed = 0
    /\ run = 1
    /\ calls = <<>>
    /\ messages \in ListsUpTo(ValidationPool, MaxMsgs)
    /\ sent_messages = <<>>
    /\ current_user = User(S_me, None)
    /\ request \in ValidationRequests
    /\ conversations_dict = None
    /\ response = None
    /\ pc = "idle"
    /\ again = None
    /\ filter_input = <<>>
    /\ clock = 0
    /\ filter_calls = <<>>
    /\ graph_calls = <<>>
    /\ file_content = <<>>
    /\ chunk_size = 1
    /\ progress_callback = None
    /\ bytes_uploaded = 0
    /\ chunks = <<>>
    /\ progress_calls = <<>>
    /\ upload_pc = "none"
    /\ progress = <<>>
    /\ draft_uploads = <<>>
    /\ uploads_created = 0
    /\ wait_call = None
    /\ wait_pc = "none"
    /\ wait_result = None

NextValidation == GetConversationsRoute \/ GetInboxRoute

SpecValidation == InitValidation /\ [][NextValidation]_vars

-----------------------------------------------------------------------------
(* The worklist filters of POST /conversations/filter and                   *)
(* POST /conversations/needing-nudging.  A filter returns objects of the    *)
(* list it was given: a kept conversation is named by its position there.   *)

WindowDays == 90

\* datetime.now(timezone.utc) when the wall clock reads hour now
UtcNow(now) == DateTime(now, TimeZone(0))

\* dt - timedelta(days=days)
MinusDays(dt, days) == DateTime(dt.wall - days * 24, dt.tzinfo)

\* the comprehension with the further condition that the last message of the
\* conversation has a received time
filter_conversations_needing_immediate_followup_Dated(conversations) ==
    SelectSeq([i \in DOMAIN conversations |-> i],
              LAMBDA i : /\ conversations[i].last_message_status = "reply"
                         /\ conversations[i].messages # <<>>
                         /\ conversations[i].messages[Len(conversations[i].messages)]
                                .received_date_time # None)

\* [conv for conv in conversations if conv.last_message_status == "reply"]
filter_conversations_needing_immediate_followup(conversations) ==
    SelectSeq([i \in DOMAIN conversations |-> i],
              LAMBDA i : conversations[i].last_message_status = "reply")

\* NeedsNudging with a conversation kept when its last message has no
\* received time
NeedsNudging_UndatedKept(conv, three_months_ago) ==
    /\ conv.last_message_status \in {"initial", "follow_up", "nudge"}
    /\ conv.messages # <<>>
    /\ LET last_message == conv.messages[Len(conv.messages)]
           last_message_time == last_message.received_date_time
       IN Truthy(last_message_time)
          => UtcInstant(normalize_datetime(last_message_time))
                >= UtcInstant(normalize_datetime(three_months_ago))

\* the nested conditions under which the loop appends conv
NeedsNudging(conv, three_months_ago) ==
    /\ conv.last_message_status \in {"initial", "follow_up", "nudge"}
    /\ conv.messages # <<>>
    /\ LET last_message == conv.messages[Len(conv.messages)]
           last_message_time == last_message.received_date_time
       IN /\ Truthy(last_message_time)
          /\ LET normalized_last_message_time == normalize_datetime(last_message_time)
                 normalized_three_months_ago == normalize_datetime(three_months_ago)
             IN /\ Truthy(normalized_last_message_time)
                /\ Truthy(normalized_three_months_ago)
                /\ UtcInstant(normalized_last_message_time)
                      >= UtcInstant(normalized_three_months_ago)

\* the loop from conversation i on, appending to filtered_conversations
RECURSIVE NudgingLoop(_, _, _, _)
NudgingLoop(conversations, i, three_months_ago, filtered_conversations) ==
    IF i > Len(conversations) THEN filtered_conversations
    ELSE NudgingLoop(conversations, i + 1, three_months_ago,
                     IF NeedsNudging(conversations[i], three_months_ago)
                     THEN Append(filtered_conversations, i)
                     ELSE filtered_conversations)

\* the loop with filtered_conversations.insert(0, conv) in place of append
RECURSIVE NudgingLoop_Prepend(_, _, _, _)
NudgingLoop_Prepend(conversations, i, three_months_ago, filtered_conversations) ==
    IF i > Len(conversations) THEN filtered_conversations
    ELSE NudgingLoop_Prepend(conversations, i + 1, three_months_ago,
                             IF NeedsNudging(conversations[i], three_months_ago)
                             THEN <<i>> \o filtered_conversations
                             ELSE filtered_conversations)

\* filter_conversations_needing_nudging with the prepending loop
filter_conversations_needing_nudging_Prepend(conversations, now) ==
    NudgingLoop_Prepend(conversations, 1, MinusDays(UtcNow(now), WindowDays), <<>>)

\* filter_conversations_needing_nudging(conversations), run when the wall
\* clock reads hour now
filter_conversations_needing_nudging(conversations, now) ==
    NudgingLoop(conversations, 1, MinusDays(UtcNow(now), WindowDays), <<>>)

\* sum(conv.total_messages for conv in filtered_conversations)
RECURSIVE SumTotalMessages(_)
SumTotalMessages(filtered_conversations) ==
    IF filtered_conversations = <<>> THEN 0
    ELSE Head(filtered_conversations).total_messages
            + SumTotalMessages(Tail(filtered_conversations))

\* the response the two handlers build from the kept conversations
FilterResponse(conversations, kept) ==
    LET filtered_conversations == [j \in DOMAIN kept |-> conversations[kept[j]]]
    IN ConversationsResponse(filtered_conversations,
                             SumTotalMessages(filtered_conversations))

-----------------------------------------------------------------------------
(* The worklist requests served on conversations the caller posts *)

MaxThreads == 2
MaxFilterCalls == 2
MaxTicks == 1

EmailMessage(received, sent) ==
    [kind |-> "EmailMessage", received_date_time |-> received, sent_date_time |-> sent]

Conversation(id, msgs, status) ==
    [kind |-> "Conversation", conversation_id |-> id, messages |-> msgs,
     total_messages |-> Len(msgs), last_message_status |-> status]

\* POST /conversations/filter
FilterConversationsRoute ==
    /\ Len(filter_calls) < MaxFilterCalls
    /\ LET kept == filter_conversations_needing_immediate_followup(filter_input)
       IN filter_calls' = Append(filter_calls,
              [endpoint |-> "filter", at |-> clock, kept |-> kept,
               response |-> FilterResponse(filter_input, kept)])
    /\ UNCHANGED <<hash_seed, run, calls, messages, sent_messages, current_user, request,
                   conversations_dict, response, pc, again, filter_input, clock>>
    /\ UNCHANGED <<graph_calls, uploadVars, serviceVars>>

\* POST /conversations/needing-nudging
NeedingNudgingRoute ==
    /\ Len(filter_calls) < MaxFilterCalls
    /\ LET kept == filter_conversations_needing_nudging(filter_input, clock)
       IN filter_calls' = Append(filter_calls,
              [endpoint |-> "needing-nudging", at |-> clock, kept |-> kept,
               response |-> FilterResponse(filter_input, kept)])
    /\ UNCHANGED <<hash_seed, run, calls, messages, sent_messages, current_user, request,
                   conversations_dict, response, pc, again, filter_input, clock>>
    /\ UNCHANGED <<graph_calls, uploadVars, serviceVars>>

\* an hour passes
Tick ==
    /\ clock < 120 * 24 + MaxTicks
    /\ clock' = clock + 1
    /\ UNCHANGED <<hash_seed, run, calls, messages, sent_messages, current_user, request,
                   conversations_dict, response, pc, again, filter_input, filter_calls>>
    /\ UNCHANGED <<graph_calls, uploadVars, serviceVars>>

\* the clock starts at hour 0 of day 120; the datetimes below lie 120, 90 and
\* 10 days before that
D120 == DateTime(0, TimeZone(0))
\* 02:00 of day 30 at UTC+2: exactly 90 days before
D90East == DateTime(30 * 24 + 2, TimeZone(2))
D10 == DateTime(110 * 24, TimeZone(0))
\* a naive datetime
N10 == DateTime(110 * 24, None)

\* the message lists of the posted conversations: empty; a last message
\* without timestamp, with a sent time only, old, on the edge of the window,
\* recent; an old message behind a recent one
FilterMessageLists ==
    {<<>>,
     <<EmailMessage(None, None)>>,
     <<EmailMessage(None, D10)>>,
     <<EmailMessage(D120, None)>>,
     <<EmailMessage(D90East, None)>>,
     <<EmailMessage(N10, None)>>,
     <<EmailMessage(D10, None), EmailMessage(D120, D120)>>}

FilterPool ==
    {Conversation(S_a, msgs, status) :
        msgs \in FilterMessageLists,
        status \in {"initial", "follow_up", "nudge", "reply", "unknown"}}

InitFilter ==
    /\ hash_seed = 0
    /\ run = 1
    /\ calls = <<>>
    /\ messages = <<>>
    /\ sent_messages = <<>>
    /\ current_user = None
    /\ request = None
    /\ conversations_dict = None
    /\ response = None
    /\ pc = "idle"
    /\ again = None
    /\ filter_input \in ListsUpTo(FilterPool, MaxThreads)
    /\ clock = 120 * 24
    /\ filter_calls = <<>>
    /\ graph_calls = <<>>
    /\ file_content = <<>>
    /\ chunk_size = 1
    /\ progress_callback = None
    /\ bytes_uploaded = 0
    /\ chunks = <<>>
    /\ progress_calls = <<>>
    /\ upload_pc = "none"
    /\ progress = <<>>
    /\ draft_uploads = <<>>
    /\ uploads_created = 0
    /\ wait_call = None
    /\ wait_pc = "none"
    /\ wait_result = None

NextFilter == FilterConversationsRoute \/ NeedingNudgingRoute

SpecFilter == InitFilter /\ [][NextFilter]_vars

\* conversations whose last message comes from the user, on the edge of the
\* window and well inside it
ClockPool ==
    {Conversation(S_a, <<EmailMessage(t, None)>>, status) :
        t \in {D90East, D10}, status \in {"initial", "nudge"}}

InitClock ==
    /\ hash_seed = 0
    /\ run = 1
    /\ calls = <<>>
    /\ messages = <<>>
    /\ sent_messages = <<>>
    /\ current_user = None
    /\ request = None
    /\ conversations_dict = None
    /\ response = None
    /\ pc = "idle"
    /\ again = None
    /\ filter_input \in ListsUpTo(ClockPool, MaxThreads)
    /\ clock = 120 * 24
    /\ filter_calls = <<>>
    /\ graph_calls = <<>>
    /\ file_content = <<>>
    /\ chunk_size = 1
    /\ progress_callback = None
    /\ bytes_uploaded = 0
    /\ chunks = <<>>
    /\ progress_calls = <<>>
    /\ upload_pc = "none"
    /\ progress = <<>>
    /\ draft_uploads = <<>>
    /\ uploads_created = 0
    /\ wait_call = None
    /\ wait_pc = "none"
    /\ wait_result = None

NextClock == NeedingNudgingRoute \/ Tick

SpecClock == InitClock /\ [][NextClock]_vars

-----------------------------------------------------------------------------
(* GraphService.upload_large_file_to_draft: the chunk loop *)

MaxFileSize == 4
MaxChunkSize == 3

\* the variables of the mail routes and of the worklist requests
mailVars == <<hash_seed, run, calls, messages, sent_messages, current_user, request,
              conversations_dict, response, pc, again, filter_input, clock,
              filter_calls, graph_calls>>

Min(a, b) == IF a < b THEN a ELSE b

\* content[start:stop] of a bytes object, for 0 <= start
Slice(content, start, stop) == SubSeq(content, start + 1, Min(stop, Len(content)))

\* range_end taken one byte too far
RangeEnd_Exclusive(uploaded, size, file_size) == Min(uploaded + size, file_size - 1)

\* range_end = min(bytes_uploaded + chunk_size - 1, file_size - 1)
RangeEnd(uploaded, size, file_size) == Min(uploaded + size - 1, file_size - 1)

\* create_upload_session returns the upload URL, or raises
CreateUploadSession ==
    /\ upload_pc = "start"
    /\ \E created \in BOOLEAN : upload_pc' = IF created THEN "loop" ELSE "raised"
    /\ UNCHANGED <<file_content, chunk_size, progress_callback, bytes_uploaded, chunks,
                   progress_calls>>
    /\ UNCHANGED <<mailVars, serviceVars>>

\* one pass of the while loop: upload_chunk returns True, or raises and the
\* exception leaves upload_large_file_to_draft
UploadChunk ==
    /\ upload_pc = "loop"
    /\ bytes_uploaded < Len(file_content)
    /\ LET file_size == Len(file_content)
           range_start == bytes_uploaded
           range_end == RangeEnd(bytes_uploaded, chunk_size, file_size)
           chunk_data == Slice(file_content, range_start, range_end + 1)
       IN \E uploaded \in BOOLEAN :
             /\ chunks' = Append(chunks, [chunk_data |-> chunk_data,
                                          range_start |-> range_start,
                                          range_end |-> range_end,
                                          total_size |-> file_size,
                                          uploaded |-> uploaded])
             /\ IF uploaded
                THEN /\ bytes_uploaded' = range_end + 1
                     /\ progress_calls' =
                           IF Truthy(progress_callback)
                           THEN Append(progress_calls,
                                       [bytes_uploaded |-> range_end + 1,
                                        total_size |-> file_size])
                           ELSE progress_calls
                     /\ upload_pc' = "loop"
                ELSE /\ upload_pc' = "raised"
                     /\ UNCHANGED <<bytes_uploaded, progress_calls>>
    /\ UNCHANGED <<file_content, chunk_size, progress_callback>>
    /\ UNCHANGED <<mailVars, serviceVars>>

\* the loop condition fails: return True
UploadReturn ==
    /\ upload_pc = "loop"
    /\ ~(bytes_uploaded < Len(file_content))
    /\ upload_pc' = "returned"
    /\ UNCHANGED <<file_content, chunk_size, progress_callback, bytes_uploaded, chunks,
                   progress_calls>>
    /\ UNCHANGED <<mailVars, serviceVars>>

Callback == [kind |-> "function"]

\* files of every size up to MaxFileSize, byte i of a file being i, and
\* every chunk size from 1 to MaxChunkSize
InitUpload ==
    /\ hash_seed = 0
    /\ run = 1
    /\ calls = <<>>
    /\ messages = <<>>
    /\ sent_messages = <<>>
    /\ current_user = None
    /\ request = None
    /\ conversations_dict = None
    /\ response = None
    /\ pc = "idle"
    /\ again = None
    /\ filter_input = <<>>
    /\ clock = 0
    /\ filter_calls = <<>>
    /\ graph_calls = <<>>
    /\ \E file_size \in 0..MaxFileSize : file_content = [i \in 1..file_size |-> i - 1]
    /\ chunk_size \in 1..MaxChunkSize
    /\ progress_callback \in {None, Callback}
    /\ bytes_uploaded = 0
    /\ chunks = <<>>
    /\ progress_calls = <<>>
    /\ upload_pc = "start"
    /\ progress = <<>>
    /\ draft_uploads = <<>>
    /\ uploads_created = 0
    /\ wait_call = None
    /\ wait_pc = "none"
    /\ wait_result = None

NextUpload == CreateUploadSession \/ UploadChunk \/ UploadReturn

SpecUpload == InitUpload /\ [][NextUpload]_vars

\* the coroutine is run to its end: each request it awaits is answered or
\* times out
SpecUploadFair == SpecUpload /\ WF_vars(NextUpload)

-----------------------------------------------------------------------------
(* UploadProgressService.  A dict is the sequence of its [key, value]       *)
(* entries in insertion order; the clock counts hours.                      *)

MaxUploads == 1
MaxWait == 2
MaxHours == 2

DictHas(d, key) == \E k \in DOMAIN d : d[k].key = key
DictGet(d, key) == d[CHOOSE k \in DOMAIN d : d[k].key = key].value
DictSet(d, key, value) ==
    IF DictHas(d, key)
    THEN [k \in DOMAIN d |-> IF d[k].key = key THEN [key |-> key, value |-> value] ELSE d[k]]
    ELSE Append(d, [key |-> key, value |-> value])

\* UploadStatus
PENDING == "pending"
READING == "reading"
ENCODING == "encoding"
UPLOADING == "uploading"
COMPLETED == "completed"
FAILED == "failed"
UploadStatus == {PENDING, READING, ENCODING, UPLOADING, COMPLETED, FAILED}

\* UploadProgress(upload_id, filename, total_size), with its draft_id
UploadProgress(upload_id, total_size, draft_id) ==
    [upload_id |-> upload_id,
     total_size |-> total_size,
     bytes_read |-> 0,
     status |-> PENDING,
     error_message |-> None,
     completed_at |-> None,
     draft_id |-> draft_id]

\* datetime.now(): a naive datetime
Now(now) == DateTime(now, None)

\* _cleanup_old_progress: the records completed more than an hour ago go
cleanup_old_progress(d, now) ==
    SelectSeq(d, LAMBDA e : ~(/\ Truthy(e.value.completed_at)
                              /\ e.value.completed_at.wall < now - 1))

\* update_progress(upload_id, bytes_read, status, total_size); an argument
\* left out is None, status is None or an UploadStatus
update_progress(d, upload_id, bytes_read, status, total_size, now) ==
    IF ~DictHas(d, upload_id) THEN d
    ELSE LET p0 == DictGet(d, upload_id)
             p1 == IF bytes_read # None THEN [p0 EXCEPT !.bytes_read = bytes_read.value] ELSE p0
             p2 == IF total_size # None THEN [p1 EXCEPT !.total_size = total_size.value] ELSE p1
             p3 == IF status # None THEN [p2 EXCEPT !.status = status.value] ELSE p2
             p4 == IF status # None /\ status.value \in {COMPLETED, FAILED}
                   THEN [p3 EXCEPT !.completed_at = Now(now)] ELSE p3
         IN DictSet(d, upload_id, p4)

\* set_error(upload_id, error_message)
set_error(d, upload_id, error_message, now) ==
    IF ~DictHas(d, upload_id) THEN d
    ELSE DictSet(d, upload_id,
                 [DictGet(d, upload_id) EXCEPT !.status = FAILED,
                                               !.error_message = error_message,
                                               !.completed_at = Now(now)])

\* get_pending_uploads_for_draft(draft_id)
get_pending_uploads_for_draft(d, by_draft, draft_id) ==
    IF ~DictHas(by_draft, draft_id) THEN <<>>
    ELSE SelectSeq(DictGet(by_draft, draft_id),
                   LAMBDA upload_id :
                       /\ DictHas(d, upload_id)
                       /\ DictGet(d, upload_id).status \notin {COMPLETED, FAILED})

\* the for loop of wait_for_uploads over pending, from position i on: the
\* dict as the loop leaves it, and whether the loop returned False
RECURSIVE CheckPending(_, _, _, _)
CheckPending(d, pending, i, now) ==
    IF i > Len(pending) THEN [progress |-> d, failed |-> FALSE]
    ELSE IF ~DictHas(d, pending[i]) THEN CheckPending(d, pending, i + 1, now)
    ELSE LET p == DictGet(d, pending[i])
         IN IF p.status = FAILED THEN [progress |-> d, failed |-> TRUE]
            ELSE IF p.bytes_read >= p.total_size /\ p.total_size > 0
                 THEN CheckPending(
                          update_progress(d, pending[i], None,
                                          [kind |-> "UploadStatus", value |-> COMPLETED],
                                          None, now),
                          pending, i + 1, now)
                 ELSE CheckPending(d, pending, i + 1, now)

\* the upload ids handed out so far, and one that never was
UploadId(n) == Str(FormatInt(n))
UploadIds == {UploadId(n) : n \in 1..(uploads_created + 1)}

\* an int argument
PyInt(n) == [kind |-> "int", value |-> n]

\* a member of UploadStatus as an argument
AsStatus(status) == [kind |-> "UploadStatus", value |-> status]

\* create_progress(filename, total_size, draft_id): uuid4 gives a fresh id
CreateProgress ==
    /\ uploads_created < MaxUploads
    /\ \E total_size \in {0, 2}, draft_id \in {None, S_a} :
         LET upload_id == UploadId(uploads_created + 1)
         IN /\ progress' = DictSet(progress, upload_id,
                                   UploadProgress(upload_id, total_size, draft_id))
            /\ draft_uploads' =
                 IF Truthy(draft_id)
                 THEN DictSet(draft_uploads, draft_id,
                              (IF DictHas(draft_uploads, draft_id)
                               THEN DictGet(draft_uploads, draft_id) ELSE <<>>)
                              \o <<upload_id>>)
                 ELSE draft_uploads
    /\ uploads_created' = uploads_created + 1
    /\ UNCHANGED <<wait_call, wait_pc, wait_result>>
    /\ UNCHANGED <<mailVars, uploadVars>>

\* update_progress, called by whoever performs the upload
UpdateProgress ==
    /\ \E upload_id \in UploadIds, bytes_read \in {None, PyInt(2)}, total_size \in {None, PyInt(2)},
          status \in {None} \cup {AsStatus(st) : st \in UploadStatus} :
         progress' = update_progress(progress, upload_id, bytes_read, status, total_size, clock)
    /\ UNCHANGED <<draft_uploads, uploads_created, wait_call, wait_pc, wait_result>>
    /\ UNCHANGED <<mailVars, uploadVars>>

\* set_error, called by whoever performs the upload
SetError ==
    /\ \E upload_id \in UploadIds :
         progress' = set_error(progress, upload_id, S_Hi, clock)
    /\ UNCHANGED <<draft_uploads, uploads_created, wait_call, wait_pc, wait_result>>
    /\ UNCHANGED <<mailVars, uploadVars>>

\* wait_for_uploads(draft_id, timeout) is called: start_time is taken; the
\* timeout and the time waited are counted in sleeps of the loop
StartWait ==
    /\ wait_pc = "none"
    /\ \E draft_id \in {S_a, S_b}, timeout \in 0..MaxWait :
         wait_call' = [draft_id |-> draft_id, timeout |-> timeout, waited |-> 0]
    /\ wait_pc' = "loop"
    /\ UNCHANGED <<progress, draft_uploads, uploads_created, wait_result>>
    /\ UNCHANGED <<mailVars, uploadVars>>

\* one pass of the while loop of wait_for_uploads, up to its sleep or return
WaitPass ==
    /\ wait_pc = "loop"
    /\ IF ~(wait_call.waited < wait_call.timeout)
       THEN /\ wait_result' = FALSE
            /\ wait_pc' = "returned"
            /\ UNCHANGED <<progress, wait_call>>
       ELSE LET pending == get_pending_uploads_for_draft(progress, draft_uploads,
                                                         wait_call.draft_id)
                checked == CheckPending(progress, pending, 1, clock)
            IN IF pending = <<>>
               THEN /\ wait_result' = TRUE
                    /\ wait_pc' = "returned"
                    /\ UNCHANGED <<progress, wait_call>>
               ELSE /\ progress' = checked.progress
                    /\ IF checked.failed
                       THEN /\ wait_result' = FALSE
                            /\ wait_pc' = "returned"
                            /\ UNCHANGED wait_call
                       ELSE /\ wait_call' = [wait_call EXCEPT !.waited = @ + 1]
                            /\ UNCHANGED <<wait_pc, wait_result>>
    /\ UNCHANGED <<draft_uploads, uploads_created>>
    /\ UNCHANGED <<mailVars, uploadVars>>

\* one run of the periodic cleanup task
Cleanup ==
    /\ progress' = cleanup_old_progress(progress, clock)
    /\ UNCHANGED <<draft_uploads, uploads_created, wait_call, wait_pc, wait_result>>
    /\ UNCHANGED <<mailVars, uploadVars>>

\* an hour passes
PassHour ==
    /\ clock < MaxHours
    /\ clock' = clock + 1
    /\ UNCHANGED <<hash_seed, run, calls, messages, sent_messages, current_user, request,
                   conversations_dict, response, pc, again, filter_input, filter_calls,
                   graph_calls>>
    /\ UNCHANGED <<uploadVars, serviceVars>>

InitProgress ==
    /\ hash_seed = 0
    /\ run = 1
    /\ calls = <<>>
    /\ messages = <<>>
    /\ sent_messages = <<>>
    /\ current_user = None
    /\ request = None
    /\ conversations_dict = None
    /\ response = None
    /\ pc = "idle"
    /\ again = None
    /\ filter_input = <<>>
    /\ clock = 0
    /\ filter_calls = <<>>
    /\ graph_calls = <<>>
    /\ file_content = <<>>
    /\ chunk_size = 1
    /\ progress_callback = None
    /\ bytes_uploaded = 0
    /\ chunks = <<>>
    /\ progress_calls = <<>>
    /\ upload_pc = "start"
    /\ progress = <<>>
    /\ draft_uploads = <<>>
    /\ uploads_created = 0
    /\ wait_call = None
    /\ wait_pc = "none"
    /\ wait_result = None

NextProgress == CreateProgress \/ UpdateProgress \/ SetError \/ StartWait \/ WaitPass \/ Cleanup \/ PassHour

SpecProgress == InitProgress /\ [][NextProgress]_vars

-----------------------------------------------------------------------------
(* Claims about the resolver *)

\* c starts with the characters of prefix
StartsWith(c, prefix) ==
    Len(c) >= Len(prefix) /\ SubSeq(c, 1, Len(prefix)) = prefix

\* C4: the key is resolved by strict precedence, first non-empty wins: the
\* conversation identifier when non-empty, else the internet message
\* identifier when non-empty; a derived "subject_" key comes out only when
\* both are absent or empty, and then every key that comes out is derived.
C4_Precedence ==
    \A i \in DOMAIN calls :
        LET m == calls[i].message
            r == calls[i].result
            cid == getattr(m, "conversation_id", None)
            imid == getattr(m, "internet_message_id", None)
        IN /\ Truthy(cid) => r = cid
           /\ (~Truthy(cid) /\ Truthy(imid)) => r = imid
           /\ (r.kind = "str" /\ StartsWith(r.chars, SubjectPrefix))
                 => (~Truthy(cid) /\ ~Truthy(imid))
           /\ (~Truthy(cid) /\ ~Truthy(imid) /\ r.kind = "str")
                 => StartsWith(r.chars, SubjectPrefix)

\* a message with an empty conversation identifier and a non-empty message
\* identifier has been resolved to its message identifier
C4_Witness ==
    \E i \in DOMAIN calls :
        /\ calls[i].message.conversation_id = S_empty
        /\ calls[i].message.internet_message_id = S_b
        /\ calls[i].result = S_b

\* C5: the key is a function of the message alone: two resolutions of the
\* same message give the same key, also when a restart of the program lies
\* between them.
C5_SameKeyAcrossRuns ==
    \A i, j \in DOMAIN calls :
        calls[i].message = calls[j].message => calls[i].result = calls[j].result

\* C6: resolution never fails: every call returns a non-empty str.
C6_NeverFails ==
    \A i \in DOMAIN calls :
        calls[i].result.kind = "str" /\ calls[i].result.chars # <<>>

-----------------------------------------------------------------------------
(* Claims about the groupers *)

\* the effective timestamp of a message: received time, else sent time
EffectiveTimestamp(msg) ==
    IF msg.received_date_time # None THEN msg.received_date_time ELSE msg.sent_date_time

\* the instant of a datetime in hours of UTC, a naive one read as UTC
Instant(dt) == IF dt.tzinfo = None THEN dt.wall ELSE dt.wall - dt.tzinfo.offset

\* a and b have the same effective timestamp, or both have none
SameTimestamp(a, b) ==
    IF EffectiveTimestamp(a) = None \/ EffectiveTimestamp(b) = None
    THEN EffectiveTimestamp(a) = EffectiveTimestamp(b)
    ELSE Instant(EffectiveTimestamp(a)) = Instant(EffectiveTimestamp(b))

\* the grouper returned a dict
Grouped == pc \in {"single", "anchored", "responded"} /\ conversations_dict.kind = "dict"

\* the places <<k, j>> of the returned buckets
Slots ==
    UNION {{<<k, j>> : j \in DOMAIN conversations_dict.items[k].messages} :
             k \in DOMAIN conversations_dict.items}

\* the message object at a place
SlotMessage(slot) ==
    Deref(conversations_dict.items[slot[1]].messages[slot[2]], messages, sent_messages)

\* C1: the buckets group_messages_by_conversation_single_folder returns
\* partition its input: every input message is at exactly one place of
\* exactly one bucket, nothing else is in a bucket, the buckets have different
\* keys, and every message of a bucket resolves to the bucket's key.  (A call
\* that raises returns no buckets.)
C1_Partition ==
    (pc = "single" /\ Grouped) =>
        LET items == conversations_dict.items
        IN /\ \A i \in DOMAIN messages :
                Cardinality({s \in Slots :
                    items[s[1]].messages[s[2]] = Ref("messages", i)}) = 1
           /\ \A s \in Slots :
                /\ items[s[1]].messages[s[2]].list = "messages"
                /\ items[s[1]].messages[s[2]].idx \in DOMAIN messages
                /\ get_conversation_id(SlotMessage(s), hash_seed) = items[s[1]].key
           /\ \A k1, k2 \in DOMAIN items : items[k1].key = items[k2].key => k1 = k2
           /\ \A k \in DOMAIN items : items[k].messages # <<>>

\* three messages were grouped into two buckets
C1_Witness ==
    /\ pc = "single" /\ Grouped
    /\ Len(messages) = 3
    /\ Len(conversations_dict.items) = 2
    /\ \E k \in DOMAIN conversations_dict.items :
          Len(conversations_dict.items[k].messages) = 2

\* C2: in every thread either grouper returns, two neighbours that both have
\* an effective timestamp are in ascending order of it.
C2_Ordered ==
    (pc \in {"single", "anchored"} /\ Grouped) =>
        \A s \in Slots :
            s[2] > 1 =>
                LET a == EffectiveTimestamp(SlotMessage(<<s[1], s[2] - 1>>))
                    b == EffectiveTimestamp(SlotMessage(s))
                IN (a # None /\ b # None) => Instant(a) <= Instant(b)

\* the sent-anchored grouper put an inbox message received at 03:00 UTC+2
\* in front of a sent message of 02:00 UTC
C2_Witness ==
    /\ pc = "anchored" /\ Grouped
    /\ \E s \in Slots :
          /\ s[2] > 1
          /\ conversations_dict.items[s[1]].messages[s[2]].list = "sent"
          /\ conversations_dict.items[s[1]].messages[s[2] - 1].list = "messages"
          /\ SlotMessage(s).received_date_time = T2
          /\ SlotMessage(<<s[1], s[2] - 1>>).received_date_time = T3East

-----------------------------------------------------------------------------
(* Claims about the classifier *)

\* the route answered with classified conversations
Classified == pc = "responded" /\ response.status = 200

\* the places <<k, i>> of the classified messages
Places ==
    UNION {{<<k, i>> : i \in DOMAIN response.conversations[k].messages} :
             k \in DOMAIN response.conversations}

\* the classified message at a place, and the Graph message it was made from
At(p) == response.conversations[p[1]].messages[p[2]]
SourceOf(p) == Deref(At(p).src, messages, sent_messages)

\* C3: the sort is stable: two messages of a thread with the same effective
\* timestamp, or both with none, are in the grouper's thread in the order of
\* the input list, and the classifier's own sort of the thread keeps them so.
C3_Stable ==
    (Classified /\ Grouped) =>
        /\ \A s, t \in Slots :
              (s[1] = t[1] /\ s[2] < t[2] /\ SameTimestamp(SlotMessage(s), SlotMessage(t)))
                  => conversations_dict.items[s[1]].messages[s[2]].idx
                       < conversations_dict.items[t[1]].messages[t[2]].idx
        /\ \A p, q \in Places :
              (p[1] = q[1] /\ p[2] < q[2] /\ SameTimestamp(SourceOf(p), SourceOf(q)))
                  => At(p).src.idx < At(q).src.idx

\* a thread of three: the input began with a message received at T2, the
\* sort moved it behind two messages both received at T1
C3_Witness ==
    /\ Classified
    /\ \E k \in DOMAIN response.conversations :
          LET m == response.conversations[k].messages
          IN /\ Len(m) = 3
             /\ m[1].received_date_time = T1 /\ m[2].received_date_time = T1
             /\ m[3].received_date_time = T2
             /\ m[3].src.idx = 1 /\ m[1].src.idx = 2 /\ m[2].src.idx = 3

\* C7: a message of the current user behind the thread's first message of the
\* current user is a nudge exactly when its predecessor is of the current
\* user too, both have an effective timestamp, and at least 3 days lie between
\* them; otherwise it is a follow_up.  User messages at T0, T0+1h and T0+5d
\* are initial, follow_up, nudge.
C7_NudgeRule ==
    Classified =>
        /\ \A p \in Places :
              (/\ At(p).is_from_current_user
               /\ \E q \in Places : q[1] = p[1] /\ q[2] < p[2] /\ At(q).is_from_current_user)
              => LET prev == <<p[1], p[2] - 1>>
                     nudge ==
                        /\ At(prev).is_from_current_user
                        /\ EffectiveTimestamp(SourceOf(p)) # None
                        /\ EffectiveTimestamp(SourceOf(prev)) # None
                        /\ Instant(EffectiveTimestamp(SourceOf(p)))
                             - Instant(EffectiveTimestamp(SourceOf(prev))) >= 3 * 24
                 IN At(p).message_type = (IF nudge THEN "nudge" ELSE "follow_up")
        /\ \A k \in DOMAIN response.conversations :
              LET m == response.conversations[k].messages
              IN (/\ Len(m) = 3
                  /\ \A i \in 1..3 : m[i].is_from_current_user
                  /\ <<m[1].received_date_time, m[2].received_date_time,
                       m[3].received_date_time>> = <<H0, H1, H121>>)
                 => <<m[1].message_type, m[2].message_type, m[3].message_type>>
                       = <<"initial", "follow_up", "nudge">>

\* a thread of the user's messages at hour 1, exactly 3 days later and 2 days
\* after that: initial, nudge, follow_up
C7_Witness ==
    /\ Classified
    /\ \E k \in DOMAIN response.conversations :
          LET m == response.conversations[k].messages
          IN /\ Len(m) = 3
             /\ <<m[1].received_date_time, m[2].received_date_time,
                  m[3].received_date_time>> = <<H1, H73, H121>>
             /\ <<m[1].message_type, m[2].message_type, m[3].message_type>>
                   = <<"initial", "nudge", "follow_up">>

\* C8: a message whose sender is not the current user is a reply, wherever it
\* stands in the thread; so is a message without a sender.
C8_OthersReply ==
    Classified =>
        \A p \in Places :
            /\ ~At(p).is_from_current_user => At(p).message_type = "reply"
            /\ SourceOf(p).from_ \in {None, From(S_other)} => At(p).message_type = "reply"

\* a message without a sender stands behind two messages of the user and is
\* a reply
C8_Witness ==
    /\ Classified
    /\ \E p \in Places :
          /\ p[2] = 3
          /\ SourceOf(p).from_ = None
          /\ At(p).message_type = "reply"
          /\ At(<<p[1], 1>>).message_type = "initial"
          /\ At(<<p[1], 2>>).message_type = "follow_up"

\* C9: the first message of the current user in a thread is initial, also
\* behind inbound messages and also in a thread classified after another
\* thread that holds a message of the user.
C9_FirstIsInitial ==
    Classified =>
        \A p \in Places :
            (/\ At(p).is_from_current_user
             /\ \A q \in Places : (q[1] = p[1] /\ q[2] < p[2]) => ~At(q).is_from_current_user)
            => At(p).message_type = "initial"

\* the second thread holds a reply and behind it the user's initial message,
\* the first thread a message of the user
C9_Witness ==
    /\ Classified
    /\ Len(response.conversations) = 2
    /\ response.conversations[1].messages[1].message_type = "initial"
    /\ Len(response.conversations[2].messages) = 2
    /\ response.conversations[2].messages[1].message_type = "reply"
    /\ response.conversations[2].messages[2].message_type = "initial"

\* the addresses that identify the user: the mail and the principal name
UserAddresses(user) ==
    IF user = None THEN {}
    ELSE {a \in {user.mail, user.user_principal_name} : Truthy(a)}

\* the sender address of a Graph message, None when it has none
SenderAddress(msg) ==
    IF msg.from_ = None THEN None
    ELSE IF msg.from_.email_address = None THEN None
    ELSE msg.from_.email_address.address

\* C10 as claimed: a message is marked is_from_current_user exactly when its
\* sender address equals, ignoring case, any one of the user's addresses.
C10_AnyAddress ==
    Classified =>
        \A p \in Places :
            At(p).is_from_current_user
            <=> /\ Truthy(SenderAddress(SourceOf(p)))
                /\ \E a \in UserAddresses(current_user) :
                      lower(a) = lower(SenderAddress(SourceOf(p)))

\* C10 as amended: a message is marked is_from_current_user exactly when its
\* sender address is non-empty and equals, ignoring case, the one address
\* used for the user: the mail when it is non-empty, else the principal name.
C10_OneAddress ==
    Classified =>
        \A p \in Places :
            At(p).is_from_current_user
            <=> /\ Truthy(SenderAddress(SourceOf(p)))
                /\ current_user # None
                /\ LET a == IF Truthy(current_user.mail) THEN current_user.mail
                            ELSE current_user.user_principal_name
                   IN Truthy(a) /\ lower(a) = lower(SenderAddress(SourceOf(p)))

\* the user has a mail and a different principal name: a message sent from
\* the mail in other letter case is marked, one from the principal name not
C10_Witness ==
    /\ Classified
    /\ current_user = User(S_me, S_upn)
    /\ \E p, q \in Places :
          /\ SenderAddress(SourceOf(p)) = S_ME /\ At(p).is_from_current_user
          /\ SenderAddress(SourceOf(q)) = S_upn /\ ~At(q).is_from_current_user

\* C11: the last_message_status of every returned conversation is the
\* message_type of the last element of its messages, and no message of the
\* conversation is dated after that element.
C11_StatusOfLast ==
    Classified =>
        \A k \in DOMAIN response.conversations :
            LET conv == response.conversations[k]
                last == conv.messages[Len(conv.messages)]
            IN /\ conv.messages # <<>>
               /\ conv.last_message_status = last.message_type
               /\ \A i \in DOMAIN conv.messages :
                     LET m == Deref(conv.messages[i].src, messages, sent_messages)
                         l == Deref(last.src, messages, sent_messages)
                     IN EffectiveTimestamp(m) # None
                        => /\ EffectiveTimestamp(l) # None
                           /\ Instant(EffectiveTimestamp(m)) <= Instant(EffectiveTimestamp(l))

\* a conversation opened by the user at T1 and answered at T2, fetched newest
\* first: its status is the reply's role, not the opening message's
C11_Witness ==
    /\ Classified
    /\ Len(messages) >= 2
    /\ messages[1].received_date_time = T2
    /\ messages[2].received_date_time = T1
    /\ \E k \in DOMAIN response.conversations :
          LET conv == response.conversations[k]
          IN /\ Len(conv.messages) = 2
             /\ conv.messages[1].src = Ref("messages", 2)
             /\ conv.messages[1].message_type = "initial"
             /\ conv.messages[2].message_type = "reply"
             /\ conv.last_message_status = "reply"

\* C12: when the handler answers with the conversations, every message in
\* them has one of the roles initial, follow_up, nudge, reply and every
\* conversation one of them as its status: "unknown" appears nowhere.
C12_NoUnknown ==
    Classified =>
        /\ \A p \in Places : At(p).message_type \in {"initial", "follow_up", "nudge", "reply"}
        /\ \A k \in DOMAIN response.conversations :
              response.conversations[k].last_message_status
                  \in {"initial", "follow_up", "nudge", "reply"}

\* nobody is signed in and a conversation ends with a message without sender
\* and without timestamp: it still gets a role, and the conversation a status
C12_Witness ==
    /\ Classified
    /\ current_user = None
    /\ \E p \in Places :
          /\ SourceOf(p).from_ = None
          /\ SourceOf(p).received_date_time = None
          /\ p[2] = Len(response.conversations[p[1]].messages)
          /\ p[2] >= 2
          /\ At(p).message_type = "reply"
          /\ response.conversations[p[1]].last_message_status = "reply"

-----------------------------------------------------------------------------
(* Claims about the worklist filters *)

\* the calls served so far at one of the two endpoints
CallsAt(endpoint) == {c \in DOMAIN filter_calls : filter_calls[c].endpoint = endpoint}

\* the positions of filter_input a call kept
Kept(c) == {filter_calls[c].kept[j] : j \in DOMAIN filter_calls[c].kept}

\* C13: the needs-reply filter keeps exactly the conversations whose status
\* is reply, whatever the timestamps of their messages, and nothing else.
C13_ExactlyReply ==
    \A c \in CallsAt("filter") :
        Kept(c) = {i \in DOMAIN filter_input : filter_input[i].last_message_status = "reply"}

\* a reply conversation whose last message has no timestamp and one whose
\* last message is 120 days old are kept
C13_Witness ==
    \E c \in CallsAt("filter") :
        /\ Len(filter_input) = 2
        /\ filter_input[1].last_message_status = "reply"
        /\ filter_input[1].messages = <<EmailMessage(None, None)>>
        /\ filter_input[2].last_message_status = "reply"
        /\ filter_input[2].messages = <<EmailMessage(D120, None)>>
        /\ Kept(c) = {1, 2}

\* the last message of a conversation that has messages
LastMessage(conv) == conv.messages[Len(conv.messages)]

\* C14 as claimed: the needs-nudging filter keeps exactly the conversations
\* whose status is initial, follow_up or nudge and whose last message has an
\* effective timestamp, the received time or else the sent time, no more than
\* 90 days before the time of the call.
C14_EffectiveTimestampWindow ==
    \A c \in CallsAt("needing-nudging") :
        Kept(c) =
            {i \in DOMAIN filter_input :
                /\ filter_input[i].last_message_status \in {"initial", "follow_up", "nudge"}
                /\ filter_input[i].messages # <<>>
                /\ EffectiveTimestamp(LastMessage(filter_input[i])) # None
                /\ Instant(EffectiveTimestamp(LastMessage(filter_input[i])))
                      >= filter_calls[c].at - WindowDays * 24}

\* C15: the needs-nudging filter never returns a conversation without
\* messages, nor one whose last message has neither a received nor a sent
\* time, whatever the status of the conversation.
C15_UndatedNeverNudged ==
    \A c \in CallsAt("needing-nudging") :
        \A i \in Kept(c) :
            /\ filter_input[i].messages # <<>>
            /\ EffectiveTimestamp(LastMessage(filter_input[i])) # None

\* a nudge conversation whose last message has no timestamp and an initial
\* one without messages are posted: the filter returns neither
C15_Witness ==
    \E c \in CallsAt("needing-nudging") :
        /\ Len(filter_input) = 2
        /\ filter_input[1] = Conversation(S_a, <<EmailMessage(None, None)>>, "nudge")
        /\ filter_input[2] = Conversation(S_a, <<>>, "initial")
        /\ filter_calls[c].kept = <<>>
        /\ filter_calls[c].response.total_conversations = 0

\* the answer of call c holds, in the order of the input, conversations of
\* the input, none of them twice
SubsequenceOfInput(c) ==
    LET kept == filter_calls[c].kept
    IN /\ \A j \in DOMAIN kept : kept[j] \in DOMAIN filter_input
       /\ \A j, k \in DOMAIN kept : j < k => kept[j] < kept[k]
       /\ Len(filter_calls[c].response.conversations) = Len(kept)
       /\ \A j \in DOMAIN kept :
             filter_calls[c].response.conversations[j] = filter_input[kept[j]]

C18_ClockIndependent ==
    \A c, d \in CallsAt("needing-nudging") : filter_calls[c].kept = filter_calls[d].kept

-----------------------------------------------------------------------------
(* Claims about repeated and whole classification runs *)

\* what a response says of its messages and threads: per thread the messages
\* in order, each with its role and flag, and the status of the thread
Outcome(resp) ==
    IF resp.status # 200 THEN <<>>
    ELSE [k \in DOMAIN resp.conversations |->
             [messages |->
                 [i \in DOMAIN resp.conversations[k].messages |->
                     LET m == resp.conversations[k].messages[i]
                     IN <<m.src, m.message_type, m.is_from_current_user>>],
              last_message_status |-> resp.conversations[k].last_message_status]]

\* C17: a second run on the same messages for the same user ends as the first
\* did and, when it returns conversations, returns the same messages in the
\* same order with the same role and is_from_current_user, and the same
\* status for every thread.
C17_Idempotent ==
    pc = "responded again" =>
        /\ again.response.status = response.status
        /\ Outcome(again.response) = Outcome(response)

\* two messages of the user with the same received time were fetched behind a
\* later reply; the second run gets the messages in the order of the first
\* response and classifies them as the first did
C17_Witness ==
    /\ pc = "responded again"
    /\ response.status = 200
    /\ again.order # [i \in DOMAIN messages |-> i]
    /\ Len(response.conversations) = 1
    /\ Len(response.conversations[1].messages) = 3
    /\ ClassifiedOrder(response.conversations, 1) = <<2, 3, 1>>
    /\ <<At(<<1, 1>>).message_type, At(<<1, 2>>).message_type, At(<<1, 3>>).message_type>>
          = <<"initial", "follow_up", "reply">>
    /\ Outcome(again.response) = Outcome(response)

\* C19 as claimed: the total_messages of a response with classified threads
\* is the sum of the message counts of all its threads.
C19_TotalIsSum ==
    Classified => response.total_messages = Cardinality(Places)

\* C20 as claimed: when there is no user record, or one with neither mail nor
\* principal name, a run on a page of messages does not answer with classified
\* threads: it signals an error to its caller.
C20_NoIdentityRejected ==
    (/\ pc = "responded"
     /\ messages # <<>>
     /\ \/ current_user = None
        \/ current_user.mail = None /\ current_user.user_principal_name = None)
    => response.status # 200

-----------------------------------------------------------------------------
(* Claims about messages without timestamp and about the anchored grouper *)

\* C21 as claimed: a message without received and sent time does not abort
\* the run: the handler answers with the conversations, in every thread the
\* messages without timestamp stand in front of those with one, and messages
\* without timestamp keep the order of the page.
C21_UndatedDoesNotAbort ==
    pc = "responded" =>
        /\ response.status = 200
        /\ \A p, q \in Places :
              (p[1] = q[1] /\ p[2] < q[2]) =>
                  /\ EffectiveTimestamp(SourceOf(q)) = None
                        => EffectiveTimestamp(SourceOf(p)) = None
                  /\ (/\ EffectiveTimestamp(SourceOf(p)) = None
                      /\ EffectiveTimestamp(SourceOf(q)) = None)
                        => At(p).src.idx < At(q).src.idx

\* the keys resolved from the sent messages
SentKeys == {get_conversation_id(sent_messages[i], hash_seed) : i \in DOMAIN sent_messages}

\* the places of thread k that hold the message object ref
PlacesOf(k, ref) ==
    {j \in DOMAIN conversations_dict.items[k].messages :
        conversations_dict.items[k].messages[j] = ref}

\* C22: the threads group_messages_by_conversation(inbox, sent) returns have
\* exactly the keys resolved from the sent messages, each once; a thread
\* holds every sent and every inbox message that resolves to its key, each
\* exactly once, and nothing else; an inbox message that resolves to the key
\* of no sent message is in no thread.  (A call that raises returns nothing.)
C22_AnchoredOnSent ==
    (pc = "anchored" /\ Grouped) =>
        LET items == conversations_dict.items
        IN /\ {items[k].key : k \in DOMAIN items} = SentKeys
           /\ \A k1, k2 \in DOMAIN items : items[k1].key = items[k2].key => k1 = k2
           /\ \A k \in DOMAIN items :
                /\ \A i \in DOMAIN sent_messages :
                      Cardinality(PlacesOf(k, Ref("sent", i)))
                         = IF get_conversation_id(sent_messages[i], hash_seed) = items[k].key
                           THEN 1 ELSE 0
                /\ \A i \in DOMAIN messages :
                      Cardinality(PlacesOf(k, Ref("messages", i)))
                         = IF get_conversation_id(messages[i], hash_seed) = items[k].key
                           THEN 1 ELSE 0
                /\ \A j \in DOMAIN items[k].messages :
                      \/ /\ items[k].messages[j].list = "sent"
                         /\ items[k].messages[j].idx \in DOMAIN sent_messages
                      \/ /\ items[k].messages[j].list = "messages"
                         /\ items[k].messages[j].idx \in DOMAIN messages
           /\ \A i \in DOMAIN messages :
                get_conversation_id(messages[i], hash_seed) \notin SentKeys
                => \A s \in Slots :
                      items[s[1]].messages[s[2]] # Ref("messages", i)

\* one sent message and two inbox messages, one of them of the sent
\* message's conversation: one thread of two messages is returned and the
\* other inbox message is left out
C22_Witness ==
    /\ pc = "anchored" /\ Grouped
    /\ Len(sent_messages) = 1 /\ Len(messages) = 2
    /\ get_conversation_id(messages[1], hash_seed) \notin SentKeys
    /\ get_conversation_id(messages[2], hash_seed) \in SentKeys
    /\ Len(conversations_dict.items) = 1
    /\ Len(conversations_dict.items[1].messages) = 2
    /\ PlacesOf(1, Ref("messages", 1)) = {}

\* the folders the messages of thread k came from
FoldersOf(k) ==
    {conversations_dict.items[k].messages[j].list :
        j \in DOMAIN conversations_dict.items[k].messages}

-----------------------------------------------------------------------------
(* Claims about the validations *)

\* the pending request fails a validation of the handler that served it
Rejected ==
    \/ pc = "responded" /\ ~ValidRequest(request.folder, request.limit)
    \/ pc = "responded inbox" /\ (request.limit < 1 \/ request.limit > 100)

\* C23 as claimed: a request that fails a validation of GET /emails/inbox or
\* of GET /conversations/{folder} is answered with status 400, and no method
\* of the mail service is called for it.
C23_RejectedWith400 ==
    Rejected => (response.status = 400 /\ graph_calls = <<>>)

-----------------------------------------------------------------------------
(* Claims about the chunked upload *)

\* the chunk_data of chunks i.. one after the other
RECURSIVE Uploaded(_)
Uploaded(i) == IF i > Len(chunks) THEN <<>> ELSE chunks[i].chunk_data \o Uploaded(i + 1)

\* C25: the chunks are sent in increasing offset order, the first from byte
\* 0, each from the byte behind the one before, each holding the bytes of its
\* range and at most chunk_size of them; when True is returned the chunks
\* together are the file, every byte once, the last chunk ending at byte
\* file_size - 1; and a chunk whose upload fails is the last chunk sent.
C25_ContiguousChunks ==
    /\ \A i \in DOMAIN chunks :
          LET c == chunks[i]
          IN /\ c.range_start = IF i = 1 THEN 0 ELSE chunks[i - 1].range_end + 1
             /\ i > 1 => chunks[i - 1].range_start < c.range_start
             /\ c.range_start <= c.range_end
             /\ Len(c.chunk_data) = c.range_end - c.range_start + 1
             /\ Len(c.chunk_data) <= chunk_size
             /\ \A j \in DOMAIN c.chunk_data :
                   c.chunk_data[j] = file_content[c.range_start + j]
             /\ ~c.uploaded => (i = Len(chunks) /\ upload_pc = "raised")
    /\ upload_pc = "returned" =>
          /\ Uploaded(1) = file_content
          /\ \A i \in DOMAIN chunks : chunks[i].uploaded
          /\ chunks # <<>> => chunks[Len(chunks)].range_end = Len(file_content) - 1

\* a file of four bytes went up in chunks of three: a full chunk and a
\* chunk of the last byte
C25_Witness ==
    /\ upload_pc = "returned"
    /\ Len(file_content) = 4 /\ chunk_size = 3
    /\ Len(chunks) = 2
    /\ <<chunks[1].range_start, chunks[1].range_end>> = <<0, 2>>
    /\ <<chunks[2].range_start, chunks[2].range_end>> = <<3, 3>>

\* the least n with n * size >= file_size
Ceil(file_size, size) ==
    CHOOSE n \in 0..file_size :
        n * size >= file_size /\ \A m \in 0..(n - 1) : m * size < file_size

\* C30: with chunk_size >= 1 the call comes to an end; when it returns True,
\* every chunk upload having succeeded, it has made exactly
\* ceil(file_size / chunk_size) chunk uploads, none for an empty file; and the
\* progress callback is called after every chunk with strictly increasing
\* bytes_uploaded, the last of them file_size.
C30_LoopTerminates ==
    /\ <>(upload_pc \in {"returned", "raised"})
    /\ [](upload_pc = "returned" =>
             /\ Len(chunks) = Ceil(Len(file_content), chunk_size)
             /\ Truthy(progress_callback) =>
                   /\ Len(progress_calls) = Len(chunks)
                   /\ progress_calls # <<>> =>
                         progress_calls[Len(progress_calls)].bytes_uploaded
                            = Len(file_content))
    /\ [](\A i, j \in DOMAIN progress_calls :
             i < j => progress_calls[i].bytes_uploaded < progress_calls[j].bytes_uploaded)

\* a file of three bytes went up in chunks of two, the callback was told 2
\* and then 3
C30_Witness ==
    /\ upload_pc = "returned"
    /\ Len(file_content) = 3 /\ chunk_size = 2
    /\ Len(chunks) = 2
    /\ progress_calls = <<[bytes_uploaded |-> 2, total_size |-> 3],
                          [bytes_uploaded |-> 3, total_size |-> 3]>>

-----------------------------------------------------------------------------
(* Claims about the roles within a thread *)

\* C27: a classified thread has at most one initial message; a thread with a
\* message of the current user has exactly one, it is the first of the user's
\* messages in the thread, and no follow_up or nudge stands in front of it.
C27_OneInitial ==
    Classified =>
        /\ \A p, q \in Places :
              (/\ p[1] = q[1]
               /\ At(p).message_type = "initial"
               /\ At(q).message_type = "initial") => p = q
        /\ \A r \in Places :
              At(r).is_from_current_user =>
                  \E p \in Places :
                      /\ p[1] = r[1]
                      /\ At(p).message_type = "initial"
                      /\ At(p).is_from_current_user
                      /\ \A q \in Places :
                            (q[1] = p[1] /\ q[2] < p[2]) =>
                                /\ ~At(q).is_from_current_user
                                /\ At(q).message_type \notin {"follow_up", "nudge"}

\* the user answered a message of someone else and wrote again four days
\* later: a reply, the one initial message, a nudge
C27_Witness ==
    /\ Classified
    /\ Len(response.conversations) = 1
    /\ Len(response.conversations[1].messages) = 3
    /\ <<At(<<1, 1>>).message_type, At(<<1, 2>>).message_type, At(<<1, 3>>).message_type>>
          = <<"reply", "initial", "nudge">>

\* C28: the role of a classified message is reply exactly when it is not
\* marked is_from_current_user, and initial, follow_up or nudge exactly when
\* it is; the message in front of a nudge is marked is_from_current_user.
C28_RoleMatchesFlag ==
    Classified =>
        \A p \in Places :
            /\ At(p).message_type = "reply" <=> ~At(p).is_from_current_user
            /\ At(p).message_type \in {"initial", "follow_up", "nudge"}
                  <=> At(p).is_from_current_user
            /\ At(p).message_type = "nudge" =>
                  /\ p[2] > 1
                  /\ At(<<p[1], p[2] - 1>>).is_from_current_user

\* five days after a reply of someone else the user writes again: the
\* message is a follow_up, not a nudge, as the one in front of it is not the
\* user's
C28_Witness ==
    /\ Classified
    /\ Len(response.conversations) = 1
    /\ Len(response.conversations[1].messages) = 3
    /\ <<At(<<1, 1>>).message_type, At(<<1, 2>>).message_type, At(<<1, 3>>).message_type>>
          = <<"initial", "reply", "follow_up">>
    /\ <<SourceOf(<<1, 1>>).received_date_time, SourceOf(<<1, 2>>).received_date_time,
          SourceOf(<<1, 3>>).received_date_time>> = <<H0, H1, H121>>


-----------------------------------------------------------------------------
(* Claims about the upload progress service *)

\* the uploads registered for the draft of the wait
Registered == IF DictHas(draft_uploads, wait_call.draft_id) THEN DictGet(draft_uploads, wait_call.draft_id) ELSE <<>>

\* the registered upload at position i has the status st
RegisteredHas(i, st) == DictHas(progress, Registered[i]) /\ DictGet(progress, Registered[i]).status = st

AllCompleted == \A i \in DOMAIN Registered : RegisteredHas(i, COMPLETED)

SomeFailed == \E i \in DOMAIN Registered : RegisteredHas(i, FAILED)

SomePending == \E i \in DOMAIN Registered : DictHas(progress, Registered[i]) /\ DictGet(progress, Registered[i]).status \notin {COMPLETED, FAILED}

\* C24: when wait_for_uploads returns, it returns True only if every upload
\* registered for the draft is COMPLETED, False if one of them is FAILED, and
\* False if the timeout has elapsed with uploads still pending.
C24_TrueOnlyIfAllCompleted == [][(wait_pc = "loop" /\ wait_pc' = "returned") => (/\ (wait_result' = TRUE => AllCompleted') /\ (SomeFailed' => wait_result' = FALSE) /\ (~(wait_call.waited < wait_call.timeout) /\ SomePending' => wait_result' = FALSE))]_vars

\* C29: every tracked upload has completed_at set if and only if its status
\* is COMPLETED or FAILED.
C29_CompletedAtIffTerminal == \A k \in DOMAIN progress : Truthy(progress[k].value.completed_at) <=> progress[k].value.status \in {COMPLETED, FAILED}

====
